---- MODULE Spec2Model ----
(***************************************************************************)
(* Job-application tracker: the REST API over the JobApplication table.    *)
(*   app/api/applications/route.ts       (src/unnamed/part_005)            *)
(*   app/api/applications/[id]/route.ts  (src/unnamed/part_004, and the    *)
(*                                        GET without try of part_003)     *)
(*   prisma/schema.prisma                                                  *)
(*   components/JobApplicationList.tsx                                     *)
(* Every handler makes at most one store call, so a request is one step.   *)
(* Spec has the requests one after another; SpecRace has two sessions      *)
(* whose requests overlap; SpecList has the list view talking to the API;  *)
(* SpecForm has the add form (src/unnamed/part_006) or the edit form       *)
(* (components/EditApplicationForm.tsx) talking to the API.                *)
(***************************************************************************)
EXTENDS Integers, Sequences, FiniteSets, TLC

VARIABLES
    store,     \* the JobApplication table: a set of rows
    usedIds,   \* the ids uuid() has generated so far
    now,       \* the server clock; every request is handled at a later instant
    last,      \* the last request with its response and the table before it
    sessions,  \* SpecRace: the request of each session and how far it got
    applied,   \* SpecRace: the sessions in the order their store calls ran
    applications, loading, error, deletingId, apiError, searchTerm, filterStatus,
               \* SpecList: the useState cells of JobApplicationList
    requests,  \* SpecList: the requests of the list view that are in flight
    mounted,   \* SpecForm: the form on the screen, "add" or "edit"
    applicationId, timeZone,
               \* SpecForm: the record the edit form is for; the UTC offset of the
               \* browser in hours
    values, errors,
               \* SpecForm: the field values and the fields with an inline error
               \* (react-hook-form)
    initialDataLoading, initialDataError, formApiError, success,
               \* SpecForm: the useState cells of the form (formApiError is its
               \* apiError)
    completions,
               \* SpecForm: how often the completion callback was invoked
    formRequest
               \* SpecForm: the request of the form that is in flight

apiVars == <<store, usedIds, now, last>>
raceVars == <<sessions, applied>>
listVars == <<applications, loading, error, deletingId, apiError, searchTerm,
              filterStatus, requests>>
formVars == <<mounted, applicationId, timeZone, values, errors, initialDataLoading,
              initialDataError, formApiError, success, completions, formRequest>>
vars == <<apiVars, raceVars, listVars, formVars>>

\* Number of requests handled in one run (the clock stops there).
MaxClock == 3

(***************************************************************************)
(* Values.  JSON text is a TLA+ string; a key that is absent from a JSON   *)
(* object reads as JavaScript's undefined.                                 *)
(***************************************************************************)
Undefined == "<undefined>"
Null == "<null>"

\* Date values are instants counted in hours from 2025-01-01T00:00Z.
\* new Date(s) of an unparseable s is an Invalid Date (getTime() is NaN).
InvalidDate == -1
\* The Date-typed field left undefined.
NoDate == -2

UUIDs == {"3f2b8c1e-0000-4000-8000-000000000001",
          "3f2b8c1e-0000-4000-8000-000000000002"}
Malformed == {"42"}
PathIds == UUIDs \cup Malformed

\* A UUID a client puts into a body as "id"; uuid() of the database never returns it.
ClientId == "3f2b8c1e-0000-4000-8000-00000000000f"

Statuses == {"Applied", "Interviewing", "Rejected", "Offer", "Withdrew"}

\* The columns a request body may set.
Fields == {"company", "jobTitle", "dateApplied", "status", "notes", "link"}
\* Keys a client may send that no schema knows.
ExtraKeys == {"id", "createdAt"}
Keys == Fields \cup ExtraKeys

(***************************************************************************)
(* Request bodies.  A body gives each key a value or leaves it out.  A     *)
(* create request sends the complete body with one key replaced, added or  *)
(* left out; an update request sends a patch of one key, the empty patch   *)
(* or the complete body.                                                   *)
(***************************************************************************)
FieldValues ==
    [company     |-> {Undefined, "", "Google", "Meta"},
     jobTitle    |-> {Undefined, "", "Engineer"},
     dateApplied |-> {Undefined, "", "2025-01-01", "2025-01-02", "not-a-date"},
     status      |-> {Undefined, "", "Applied", "Offer", "Pending"},
     notes       |-> {Undefined, Null, "", "referral"},
     link        |-> {Undefined, Null, "", "https://example.com/job", "example"},
     id          |-> {Undefined, ClientId},
     createdAt   |-> {Undefined, "2020-01-01T00:00:00.000Z"}]

EmptyBody == [k \in Keys |-> Undefined]

CompleteBody ==
    [company |-> "Google", jobTitle |-> "Engineer", dateApplied |-> "2025-01-01",
     status |-> "Applied", notes |-> "referral", link |-> "https://example.com/job",
     id |-> Undefined, createdAt |-> Undefined]

CreateBodies ==
    UNION {{[CompleteBody EXCEPT ![k] = v] : v \in FieldValues[k]} : k \in Keys}

UpdateBodies ==
    UNION {{[EmptyBody EXCEPT ![k] = v] : v \in FieldValues[k]} : k \in Keys}
    \cup {CompleteBody}

(***************************************************************************)
(* JavaScript and library functions the handlers use.                      *)
(***************************************************************************)
\* !v is false exactly for a non-empty string (of the values a body holds).
Truthy(v) == v \notin {Undefined, Null, ""}

\* new Date(s): the instant s denotes, or an Invalid Date.
NewDate(s) ==
    CASE s = "2025-01-01" -> 0
      [] s = "2025-01-02" -> 24
      [] s = "2024-12-31" -> 0 - 24
      [] s = "2024-12-31T00:00:00.000Z" -> 0 - 24
      [] s = "2025-01-01T00:00:00.000Z" -> 0
      [] s = "2025-01-02T00:00:00.000Z" -> 24
      [] s = "2020-01-01T00:00:00.000Z" -> 0 - 43848
      [] OTHER -> InvalidDate

\* Date.prototype.toISOString, as JSON.stringify applies it to a Date.
ToISOString(t) ==
    CASE t = 0 -> "2025-01-01T00:00:00.000Z"
      [] t = 24 -> "2025-01-02T00:00:00.000Z"
      [] t = 0 - 24 -> "2024-12-31T00:00:00.000Z"
      [] OTHER -> Null

\* The URL rule left out: any string passes for a URL.
IsUrlAny(s) == TRUE

\* z.string().url()
IsUrl(s) == s \in {"https://example.com/job"}

\* Response.json / new Response: a status that admits no body (Fetch standard, "null
\* body status") with a body that is not null throws a TypeError ("Invalid response
\* status code 204").
NullBodyStatus(status) == status \in {101, 103, 204, 205, 304}

\* The id validation left out: every path id is taken for a UUID.
IdSchemaAny(id) == TRUE

\* z.string().uuid(): safeParse succeeds on a syntactically valid UUID.
IdSchemaOk(id) == id \in UUIDs

(***************************************************************************)
(* updateApplicationSchema (zod).  Each field is optional; a present value *)
(* that breaks its rule yields the messages flatten().fieldErrors lists.   *)
(***************************************************************************)
FieldIssues(f, v) ==
    CASE v = Undefined -> <<>>
      [] f = "company" ->
            IF v = Null THEN <<"Expected string, received null">>
            ELSE IF v = "" THEN <<"Company name is required">> ELSE <<>>
      [] f = "jobTitle" ->
            IF v = Null THEN <<"Expected string, received null">>
            ELSE IF v = "" THEN <<"Job title is required">> ELSE <<>>
      [] f = "dateApplied" ->
            IF v = Null THEN <<"Expected string, received null">>
            ELSE IF NewDate(v) = InvalidDate
                 THEN <<"Invalid date format. ExpectedYYYY-MM-DD">> ELSE <<>>
      [] f = "status" ->
            IF v \in Statuses THEN <<>> ELSE <<"Please select a valid status">>
      [] f = "notes" -> <<>>
      [] f = "link" ->
            IF v = Null \/ v = "" \/ IsUrl(v) THEN <<>> ELSE <<"Must be a valid URL">>
      [] OTHER -> <<>>

\* parsedBody.error.flatten().fieldErrors: the offending fields with their messages.
FieldErrors(body) ==
    [f \in {g \in Fields : FieldIssues(g, body[g]) # <<>>} |-> FieldIssues(f, body[f])]

\* A schema that lets unknown keys through (passthrough).
ParsedDataPassthrough(body) == body

\* parsedBody.data: z.object strips the keys the schema does not know.
ParsedData(body) == [f \in Fields |-> body[f]]

\* The coercion left out: an empty string goes to the store as it is.
EmptyKept(v) == v

\* notes: data.notes === '' ? null : data.notes (and the same for link)
EmptyToNull(v) == IF v = "" THEN Null ELSE v

\* dateApplied ? new Date(dateApplied) : undefined
DateOrUndefined(v) == IF Truthy(v) THEN NewDate(v) ELSE NoDate

\* updateData of the PUT handler.
UpdateData(data) ==
    [data EXCEPT !.notes = EmptyToNull(data.notes),
                 !.link = EmptyToNull(data.link),
                 !.dateApplied = DateOrUndefined(data.dateApplied)]

(***************************************************************************)
(* The store: the JobApplication table behind the Prisma client.  A call   *)
(* answers [ok, code, rows, row]; fault says that the database fails the   *)
(* call for a reason of its own (code "P1001", connection lost).           *)
(***************************************************************************)
\* What a lookup answers when no row matches (null).
NoRow == [id |-> Null]

Answer(ok, code, rows, row) == [ok |-> ok, code |-> code, rows |-> rows, row |-> row]

Ids(rows) == {r.id : r \in rows}
HasRow(rows, id) == \E r \in rows : r.id = id
RowOf(rows, id) == CHOOSE r \in rows : r.id = id

\* A lookup that ignores its where clause (findFirst): any row answers.
FindUniqueAny(rows, id, fault) ==
    IF fault THEN Answer(FALSE, "P1001", rows, NoRow)
    ELSE IF rows # {} THEN Answer(TRUE, "", rows, CHOOSE r \in rows : TRUE)
    ELSE Answer(TRUE, "", rows, NoRow)

\* prisma.jobApplication.findUnique({where: {id}})
FindUnique(rows, id, fault) ==
    IF fault THEN Answer(FALSE, "P1001", rows, NoRow)
    ELSE IF HasRow(rows, id) THEN Answer(TRUE, "", rows, RowOf(rows, id))
    ELSE Answer(TRUE, "", rows, NoRow)

\* findMany without orderBy: the rows in any order.
FindManyAnyOrder(rows) ==
    {s \in [1..Cardinality(rows) -> rows] :
        \A i, j \in 1..Cardinality(rows) : i # j => s[i] # s[j]}

\* prisma.jobApplication.findMany({orderBy: {dateApplied: 'desc'}}): the orders in
\* which the database may return the rows (rows of equal dateApplied in any order).
FindManyOrders(rows) ==
    {s \in [1..Cardinality(rows) -> rows] :
        /\ \A i, j \in 1..Cardinality(rows) : i # j => s[i] # s[j]
        /\ \A i, j \in 1..Cardinality(rows) : i < j => s[i].dateApplied >= s[j].dateApplied}

\* A column with a default takes the value the data names, when it names one.
Given(data, k) == k \in DOMAIN data /\ data[k] # Undefined

\* The row a create builds: @default(uuid()), @default(now()), @updatedAt, and null
\* for an optional column that is not given.
NewRow(data, id, t) ==
    [id |-> IF Given(data, "id") THEN data.id ELSE id,
     company |-> data.company,
     jobTitle |-> data.jobTitle,
     dateApplied |-> IF data.dateApplied = NoDate THEN t ELSE data.dateApplied,
     status |-> data.status,
     notes |-> IF data.notes = Undefined THEN Null ELSE data.notes,
     link |-> IF data.link = Undefined THEN Null ELSE data.link,
     createdAt |-> IF Given(data, "createdAt") THEN NewDate(data.createdAt) ELSE t,
     updatedAt |-> t]

\* prisma.jobApplication.create({data}); the client refuses an Invalid Date, the
\* primary key refuses an id that is already there.
Create(rows, data, id, t, fault) ==
    IF data.dateApplied = InvalidDate THEN Answer(FALSE, "validation", rows, NoRow)
    ELSE IF fault THEN Answer(FALSE, "P1001", rows, NoRow)
    ELSE IF HasRow(rows, id) THEN Answer(FALSE, "P2002", rows, NoRow)
    ELSE Answer(TRUE, "", rows \cup {NewRow(data, id, t)}, NewRow(data, id, t))

\* An update that writes null into an optional column the patch does not name.
PatchedOverwrite(row, data, t) ==
    [row EXCEPT
       !.company = IF data.company = Undefined THEN @ ELSE data.company,
       !.jobTitle = IF data.jobTitle = Undefined THEN @ ELSE data.jobTitle,
       !.dateApplied = IF data.dateApplied = NoDate THEN @ ELSE data.dateApplied,
       !.status = IF data.status = Undefined THEN @ ELSE data.status,
       !.notes = IF data.notes = Undefined THEN Null ELSE data.notes,
       !.link = IF data.link = Undefined THEN Null ELSE data.link,
       !.updatedAt = t]

\* The row an update leaves: an undefined value leaves its column alone.
Patched(row, data, t) ==
    [row EXCEPT
       !.id = IF Given(data, "id") THEN data.id ELSE @,
       !.createdAt = IF Given(data, "createdAt") THEN NewDate(data.createdAt) ELSE @,
       !.company = IF data.company = Undefined THEN @ ELSE data.company,
       !.jobTitle = IF data.jobTitle = Undefined THEN @ ELSE data.jobTitle,
       !.dateApplied = IF data.dateApplied = NoDate THEN @ ELSE data.dateApplied,
       !.status = IF data.status = Undefined THEN @ ELSE data.status,
       !.notes = IF data.notes = Undefined THEN @ ELSE data.notes,
       !.link = IF data.link = Undefined THEN @ ELSE data.link,
       !.updatedAt = t]

\* An update that inserts the row when no row has the id (upsert).
UpdateOrInsert(rows, id, data, t, fault) ==
    IF fault THEN Answer(FALSE, "P1001", rows, NoRow)
    ELSE IF ~HasRow(rows, id)
    THEN Answer(TRUE, "", rows \cup {NewRow(data, id, t)}, NewRow(data, id, t))
    ELSE Answer(TRUE, "", (rows \ {RowOf(rows, id)}) \cup {Patched(RowOf(rows, id), data, t)},
                Patched(RowOf(rows, id), data, t))

\* prisma.jobApplication.update({where: {id}, data}): P2025 when no row has the id.
Update(rows, id, data, t, fault) ==
    IF fault THEN Answer(FALSE, "P1001", rows, NoRow)
    ELSE IF ~HasRow(rows, id) THEN Answer(FALSE, "P2025", rows, NoRow)
    ELSE Answer(TRUE, "", (rows \ {RowOf(rows, id)}) \cup {Patched(RowOf(rows, id), data, t)},
                Patched(RowOf(rows, id), data, t))

\* prisma.jobApplication.delete({where: {id}}): P2025 when no row has the id.
Delete(rows, id, fault) ==
    IF fault THEN Answer(FALSE, "P1001", rows, NoRow)
    ELSE IF ~HasRow(rows, id) THEN Answer(FALSE, "P2025", rows, NoRow)
    ELSE Answer(TRUE, "", rows \ {RowOf(rows, id)}, RowOf(rows, id))

\* NextResponse.json(row): a Date column is written as its ISO string.
ToJSON(row) == [row EXCEPT !.dateApplied = ToISOString(row.dateApplied)]

(***************************************************************************)
(* The handlers.  Each answers [store, status, body, calls, code]: the     *)
(* table it leaves, the HTTP status, the JSON body, the store calls it     *)
(* made and the error code it caught ("" for none).                        *)
(***************************************************************************)
Reply(rows, status, body, calls, code) ==
    [store |-> rows, status |-> status, body |-> body, calls |-> calls, code |-> code]

InvalidId == [message |-> "Invalid ID format. Must be a UUID."]

\* The required-field test with status forgotten.
MissingRequiredSkipsStatus(body) ==
    {f \in {"company", "jobTitle", "dateApplied"} : ~Truthy(body[f])}

\* The fields of a create body that are missing or empty.
MissingRequired(body) ==
    {f \in {"company", "jobTitle", "dateApplied", "status"} : ~Truthy(body[f])}

\* The create data with the submitted date dropped (the column default applies).
CreateDataDropsDate(body) ==
    [company |-> body.company,
     jobTitle |-> body.jobTitle,
     dateApplied |-> NoDate,
     status |-> body.status,
     notes |-> body.notes,
     link |-> body.link]

\* The data object the create handler passes to the store.
CreateData(body) ==
    [company |-> body.company,
     jobTitle |-> body.jobTitle,
     dateApplied |-> DateOrUndefined(body.dateApplied),
     status |-> body.status,
     notes |-> body.notes,
     link |-> body.link]

\* The body of the 201 response.
Created(row) == [message |-> "Application created successfully", application |-> ToJSON(row)]

\* GET /api/applications
ListHandler(rows, order, fault) ==
    IF fault
    THEN Reply(rows, 500, [error |-> "Error fetching job applications"], <<"findMany">>, "P1001")
    ELSE Reply(rows, 200, [i \in 1..Len(order) |-> ToJSON(order[i])], <<"findMany">>, "")

\* POST /api/applications
PostHandler(rows, body, id, t, fault) ==
    IF MissingRequired(body) # {}
    THEN Reply(rows, 400, [error |-> "Missing required fields"], <<>>, "")
    ELSE LET a == Create(rows, CreateData(body), id, t, fault)
         IN  IF a.ok
             THEN Reply(a.rows, 201, Created(a.row), <<"create">>, "")
             ELSE Reply(rows, 500, [error |-> "Error creating job application"],
                        <<"create">>, a.code)

\* GET /api/applications/{id}
GetHandler(rows, id, fault) ==
    IF ~IdSchemaOk(id) THEN Reply(rows, 400, InvalidId, <<>>, "")
    ELSE LET a == FindUnique(rows, id, fault)
         IN  IF ~a.ok
             THEN Reply(rows, 500, [message |-> "Failed to fetch application"],
                        <<"findUnique">>, a.code)
             ELSE IF a.row = NoRow
             THEN Reply(rows, 404, [message |-> "Application not found"],
                        <<"findUnique">>, "")
             ELSE Reply(rows, 200, ToJSON(a.row), <<"findUnique">>, "")

\* GET /api/applications/{id} as the route file of part_003 has it: no try block, so
\* a rejected findUnique leaves the handler as an exception and the handler builds
\* no response (the framework answers 500 with a body of its own).
GetHandlerNoCatch(rows, id, fault) ==
    IF ~IdSchemaOk(id) THEN Reply(rows, 400, InvalidId, <<>>, "")
    ELSE LET a == FindUnique(rows, id, fault)
         IN  IF ~a.ok
             THEN Reply(rows, 500, [thrown |-> a.code], <<"findUnique">>, a.code)
             ELSE IF a.row = NoRow
             THEN Reply(rows, 404, [message |-> "Application not found"],
                        <<"findUnique">>, "")
             ELSE Reply(rows, 200, ToJSON(a.row), <<"findUnique">>, "")

\* PUT /api/applications/{id}
PutHandler(rows, id, body, t, fault) ==
    IF ~IdSchemaOk(id) THEN Reply(rows, 400, InvalidId, <<>>, "")
    ELSE IF DOMAIN FieldErrors(body) # {}
    THEN Reply(rows, 400, [message |-> "Validation failed", errors |-> FieldErrors(body)],
               <<>>, "")
    ELSE LET a == Update(rows, id, UpdateData(ParsedData(body)), t, fault)
         IN  IF a.ok THEN Reply(a.rows, 200, ToJSON(a.row), <<"update">>, "")
             ELSE IF a.code = "P2025"
             THEN Reply(rows, 404, [message |-> "Application not found for update"],
                        <<"update">>, a.code)
             ELSE Reply(rows, 500, [message |-> "Failed to update application"],
                        <<"update">>, a.code)

\* DELETE /api/applications/{id}.  The success response is built inside the try
\* block, after the row is gone: NextResponse.json(body, {status: 204}) throws a
\* TypeError, which the catch block answers like any error without code P2025.
DeleteHandler(rows, id, fault) ==
    IF ~IdSchemaOk(id) THEN Reply(rows, 400, InvalidId, <<>>, "")
    ELSE LET a == Delete(rows, id, fault)
         IN  IF a.ok /\ ~NullBodyStatus(204)
             THEN Reply(a.rows, 204, [message |-> "Application deleted successfully"],
                        <<"delete">>, "")
             ELSE IF a.code = "P2025"
             THEN Reply(a.rows, 404, [message |-> "Application not found for delete"],
                        <<"delete">>, a.code)
             ELSE Reply(a.rows, 500, [message |-> "Failed to delete application"],
                        <<"delete">>, IF a.ok THEN "TypeError" ELSE a.code)

(***************************************************************************)
(* The state machine: one request per step.                                *)
(***************************************************************************)
\* The request just answered: method, path id, body, and the table before it.
Request(op, id, body, reply) ==
    [op |-> op, id |-> id, body |-> body, before |-> store,
     status |-> reply.status, resp |-> reply.body, calls |-> reply.calls,
     code |-> reply.code]

\* The two sessions of SpecRace.
Session == {"A", "B"}

\* A session that has no request.
Idle == [op |-> "none", id |-> Undefined, body |-> EmptyBody, pc |-> "idle",
         status |-> 0, resp |-> [message |-> Undefined]]

\* No session has a request.
NoRace ==
    /\ sessions = [s \in Session |-> Idle]
    /\ applied = <<>>

\* The list view is not mounted: its cells hold their useState defaults and it
\* has sent nothing.
NoList ==
    /\ applications = <<>>
    /\ loading = TRUE
    /\ error = Null
    /\ deletingId = Null
    /\ apiError = Null
    /\ searchTerm = <<>>
    /\ filterStatus = "All"
    /\ requests = {}

\* No request has been answered yet.
NoRequest ==
    [op |-> "none", id |-> Undefined, body |-> EmptyBody, before |-> {},
     status |-> 0, resp |-> [message |-> Undefined], calls |-> <<>>, code |-> ""]

\* No request of a form is in flight.
NoFormRequest == [kind |-> "none", body |-> EmptyBody, pc |-> "none", status |-> 0,
                  resp |-> [message |-> Undefined]]

\* No form is mounted.
NoForm ==
    /\ mounted = "none"
    /\ applicationId = Undefined
    /\ timeZone = 0
    /\ values = EmptyBody
    /\ errors = {}
    /\ initialDataLoading = TRUE
    /\ initialDataError = Null
    /\ formApiError = Null
    /\ success = Null
    /\ completions = 0
    /\ formRequest = NoFormRequest

Init ==
    /\ store = {}
    /\ usedIds = {}
    /\ now = 0
    /\ last = NoRequest
    /\ NoRace
    /\ NoList
    /\ NoForm

\* A request is answered in one step; only a store call can meet a fault.
Serve(op, id, body, reply, fault) ==
    /\ fault => reply.calls # <<>>
    /\ store' = reply.store
    /\ now' = now + 1
    /\ last' = Request(op, id, body, reply)
    /\ UNCHANGED <<raceVars, listVars, formVars>>

ListApplications ==
    /\ now < MaxClock
    /\ \E order \in FindManyOrders(store), fault \in BOOLEAN :
          /\ Serve("LIST", Undefined, EmptyBody, ListHandler(store, order, fault), fault)
          /\ UNCHANGED usedIds

CreateApplication ==
    /\ now < MaxClock
    /\ \E body \in CreateBodies, id \in UUIDs \ usedIds, fault \in BOOLEAN :
          LET reply == PostHandler(store, body, id, now + 1, fault)
          IN  /\ Serve("POST", Undefined, body, reply, fault)
              /\ usedIds' = IF reply.status = 201 THEN usedIds \cup {id} ELSE usedIds

ReadApplication ==
    /\ now < MaxClock
    /\ \E id \in PathIds, fault \in BOOLEAN :
          /\ Serve("GET", id, EmptyBody, GetHandler(store, id, fault), fault)
          /\ UNCHANGED usedIds

ReadApplicationNoCatch ==
    /\ now < MaxClock
    /\ \E id \in PathIds, fault \in BOOLEAN :
          /\ Serve("GET", id, EmptyBody, GetHandlerNoCatch(store, id, fault), fault)
          /\ UNCHANGED usedIds

UpdateApplication ==
    /\ now < MaxClock
    /\ \E id \in PathIds, body \in UpdateBodies, fault \in BOOLEAN :
          /\ Serve("PUT", id, body, PutHandler(store, id, body, now + 1, fault), fault)
          /\ UNCHANGED usedIds

DeleteApplication ==
    /\ now < MaxClock
    /\ \E id \in PathIds, fault \in BOOLEAN :
          /\ Serve("DELETE", id, EmptyBody, DeleteHandler(store, id, fault), fault)
          /\ UNCHANGED usedIds

Next ==
    \/ ListApplications
    \/ CreateApplication
    \/ ReadApplication
    \/ ReadApplicationNoCatch
    \/ UpdateApplication
    \/ DeleteApplication

Spec == Init /\ [][Next]_vars

(***************************************************************************)
(* Two sessions at once.  Each session sends one request for the same      *)
(* record; a handler runs up to and including its one store call (the      *)
(* database runs the calls one at a time, in the order of applied) and     *)
(* sends its response in a later step.                                     *)
(***************************************************************************)
\* The record both sessions address, created by an earlier POST.
RaceId == CHOOSE u \in UUIDs : TRUE
RaceCreate == PostHandler({}, CompleteBody, RaceId, 1, FALSE)

\* What a session may send: a PUT with any update body, or a DELETE.
RaceRequests ==
    {[Idle EXCEPT !.op = "PUT", !.id = RaceId, !.body = b, !.pc = "sent"] : b \in UpdateBodies}
    \cup {[Idle EXCEPT !.op = "DELETE", !.id = RaceId, !.pc = "sent"]}

InitRace ==
    /\ store = RaceCreate.store
    /\ usedIds = {RaceId}
    /\ now = 1
    /\ last = [op |-> "POST", id |-> Undefined, body |-> CompleteBody, before |-> {},
               status |-> RaceCreate.status, resp |-> RaceCreate.body,
               calls |-> RaceCreate.calls, code |-> RaceCreate.code]
    /\ sessions \in [Session -> RaceRequests]
    /\ applied = <<>>
    /\ NoList
    /\ NoForm

\* The handler of session s runs as far as its store call has returned.
Run(s, op, reply) ==
    /\ sessions[s].op = op
    /\ sessions[s].pc = "sent"
    /\ store' = reply.store
    /\ now' = now + 1
    /\ last' = Request(op, sessions[s].id, sessions[s].body, reply)
    /\ sessions' = [sessions EXCEPT ![s].pc = "called", ![s].status = reply.status,
                                     ![s].resp = reply.body]
    /\ applied' = Append(applied, s)
    /\ UNCHANGED <<usedIds, listVars, formVars>>

RunPut(s) ==
    Run(s, "PUT", PutHandler(store, sessions[s].id, sessions[s].body, now + 1, FALSE))

RunDelete(s) ==
    Run(s, "DELETE", DeleteHandler(store, sessions[s].id, FALSE))

\* The response of session s reaches its client.
Respond(s) ==
    /\ sessions[s].pc = "called"
    /\ sessions' = [sessions EXCEPT ![s].pc = "answered"]
    /\ UNCHANGED <<apiVars, applied, listVars, formVars>>

NextRace ==
    \/ \E s \in Session : RunPut(s)
    \/ \E s \in Session : RunDelete(s)
    \/ \E s \in Session : Respond(s)

SpecRace == InitRace /\ [][NextRace]_vars

(***************************************************************************)
(* The list view (components/JobApplicationList.tsx) and the API behind    *)
(* it.  A request of the view is sent, served by its handler, and its      *)
(* response (or the failure of the fetch) is handled by the view, each in  *)
(* a step of its own.  A text is searched as the sequence of its           *)
(* characters.                                                             *)
(***************************************************************************)
Uppers == <<"A", "B", "C", "D", "E", "F", "G", "H", "I", "J", "K", "L", "M",
            "N", "O", "P", "Q", "R", "S", "T", "U", "V", "W", "X", "Y", "Z">>
Lowers == <<"a", "b", "c", "d", "e", "f", "g", "h", "i", "j", "k", "l", "m",
            "n", "o", "p", "q", "r", "s", "t", "u", "v", "w", "x", "y", "z">>

\* The characters of the texts a record of the model holds.
Chars(s) ==
    CASE s = "Google" -> <<"G", "o", "o", "g", "l", "e">>
      [] s = "Meta" -> <<"M", "e", "t", "a">>
      [] s = "Engineer" -> <<"E", "n", "g", "i", "n", "e", "e", "r">>
      [] s = "referral" -> <<"r", "e", "f", "e", "r", "r", "a", "l">>
      [] OTHER -> <<>>

\* A search that leaves the case of the letters as it is.
ToLowerCaseNone(text) == text

\* String.prototype.toLowerCase
ToLowerCase(text) ==
    [i \in 1..Len(text) |->
        IF \E k \in DOMAIN Uppers : Uppers[k] = text[i]
        THEN Lowers[CHOOSE k \in DOMAIN Uppers : Uppers[k] = text[i]]
        ELSE text[i]]

\* String.prototype.includes
Includes(text, term) ==
    \E k \in 0..(Len(text) - Len(term)) :
        [i \in 1..Len(term) |-> text[k + i]] = term

\* matchesSearchTerm and matchesStatus of filteredApplications
MatchesSearchTerm(app, term) ==
    LET lowerCaseSearchTerm == ToLowerCase(term)
    IN  \/ lowerCaseSearchTerm = <<>>
        \/ Includes(ToLowerCase(Chars(app.jobTitle)), lowerCaseSearchTerm)
        \/ Includes(ToLowerCase(Chars(app.company)), lowerCaseSearchTerm)
        \/ Includes(IF app.notes = Null THEN <<>> ELSE ToLowerCase(Chars(app.notes)),
                    lowerCaseSearchTerm)

MatchesStatus(app, filter) == filter = "All" \/ app.status = filter

\* filteredApplications: Array.prototype.filter keeps the order.
FilteredApplications(apps, term, filter) ==
    SelectSeq(apps, LAMBDA app : MatchesSearchTerm(app, term) /\ MatchesStatus(app, filter))

\* What the user types into the search box and picks in the status select.
SearchTerms == {<<>>, <<"g", "o", "o", "g">>, <<"E", "N", "G">>, <<"r", "e", "f">>}
StatusFilters == {"All", "Offer"}

\* The tables the view may find: up to two records, created one after the other.
ListBodies ==
    {CompleteBody,
     [CompleteBody EXCEPT !.company = "Meta", !.notes = Undefined],
     [CompleteBody EXCEPT !.status = "Offer", !.dateApplied = "2025-01-02"]}
OtherId == CHOOSE u \in UUIDs : u # RaceId
ListStores ==
    {{}}
    \cup {PostHandler({}, b, RaceId, 1, FALSE).store : b \in ListBodies}
    \cup {PostHandler(PostHandler({}, b, RaceId, 1, FALSE).store, c, OtherId, 2, FALSE).store :
             b \in ListBodies, c \in ListBodies}

\* A request of the view on its way.
ListRequest == [kind |-> "LIST", id |-> Undefined, pc |-> "sent", status |-> 0,
                resp |-> [message |-> Undefined]]
DeleteRequest(id) == [ListRequest EXCEPT !.kind = "DELETE", !.id = id]
Replied(r, reply) == [r EXCEPT !.pc = "replied", !.status = reply.status, !.resp = reply.body]

\* response.ok: the fetch resolved with a status from 200 to 299.
ResponseOk(r) == r.pc = "replied" /\ r.status \in 200..299

\* The table rows are on the screen (neither the loading nor the error message).
Rendered == ~loading /\ error = Null

InitList ==
    /\ store \in ListStores
    /\ usedIds = Ids(store)
    /\ now = 2
    /\ last = NoRequest
    /\ NoRace
    /\ NoList
    /\ NoForm

\* useEffect on mount: fetchApplications up to its fetch.
FetchApplications ==
    /\ loading
    /\ \A r \in requests : r.kind # "LIST"
    /\ loading' = TRUE
    /\ error' = Null
    /\ requests' = requests \cup {ListRequest}
    /\ UNCHANGED <<apiVars, raceVars, formVars, applications, deletingId, apiError, searchTerm,
                   filterStatus>>

\* The API serves a request of the view.
ServeList(r) ==
    /\ r.kind = "LIST" /\ r.pc = "sent"
    /\ \E order \in FindManyOrders(store), fault \in BOOLEAN :
          requests' = (requests \ {r}) \cup {Replied(r, ListHandler(store, order, fault))}
    /\ UNCHANGED <<apiVars, raceVars, formVars, applications, loading, error, deletingId, apiError,
                   searchTerm, filterStatus>>

ServeDelete(r) ==
    /\ r.kind = "DELETE" /\ r.pc = "sent"
    /\ \E fault \in BOOLEAN :
          LET reply == DeleteHandler(store, r.id, fault)
          IN  /\ store' = reply.store
              /\ requests' = (requests \ {r}) \cup {Replied(r, reply)}
    /\ UNCHANGED <<usedIds, now, last, raceVars, formVars, applications, loading, error, deletingId,
                   apiError, searchTerm, filterStatus>>

\* The fetch of a request is rejected (the network fails).
NetworkError(r) ==
    /\ r.pc # "failed"
    /\ requests' = (requests \ {r}) \cup {[r EXCEPT !.pc = "failed", !.status = 0,
                                                    !.resp = ListRequest.resp]}
    /\ UNCHANGED <<apiVars, raceVars, formVars, applications, loading, error, deletingId, apiError,
                   searchTerm, filterStatus>>

\* fetchApplications from the settled fetch on.
FetchSettled(r) ==
    /\ r.kind = "LIST" /\ r.pc \in {"replied", "failed"}
    /\ applications' = IF ResponseOk(r) THEN r.resp ELSE applications
    /\ error' = IF ResponseOk(r) THEN error
                ELSE IF r.pc = "failed" THEN "Failed to fetch"
                ELSE "Failed to fetch applications"
    /\ loading' = FALSE
    /\ requests' = requests \ {r}
    /\ UNCHANGED <<apiVars, raceVars, formVars, deletingId, apiError, searchTerm, filterStatus>>

\* handleDelete up to its fetch (the user confirmed); the button of the row is
\* disabled while deletingId names the row.  The model follows one DELETE for a
\* row at a time: a row is asked for again after its DELETE has settled.
HandleDelete(id) ==
    /\ Rendered
    /\ \E i \in DOMAIN FilteredApplications(applications, searchTerm, filterStatus) :
          FilteredApplications(applications, searchTerm, filterStatus)[i].id = id
    /\ deletingId # id
    /\ \A r \in requests : ~(r.kind = "DELETE" /\ r.id = id)
    /\ deletingId' = id
    /\ error' = Null
    /\ requests' = requests \cup {DeleteRequest(id)}
    /\ UNCHANGED <<apiVars, raceVars, formVars, applications, loading, apiError, searchTerm,
                   filterStatus>>

\* The row is taken from the local state however the DELETE settled.
WithoutDeletedAnyway(apps, r) == SelectSeq(apps, LAMBDA app : app.id # r.id)

\* The applications after the DELETE of a row settled as r.
WithoutDeleted(apps, r) ==
    IF ResponseOk(r) THEN SelectSeq(apps, LAMBDA app : app.id # r.id) ELSE apps

\* handleDelete from the settled fetch on.
DeleteSettled(r) ==
    /\ r.kind = "DELETE" /\ r.pc \in {"replied", "failed"}
    /\ applications' = WithoutDeleted(applications, r)
    /\ apiError' = IF ResponseOk(r) THEN apiError
                   ELSE IF r.pc = "failed" THEN "Failed to fetch"
                   ELSE IF "message" \in DOMAIN r.resp THEN r.resp.message
                   ELSE "Failed to delete application"
    /\ deletingId' = Null
    /\ requests' = requests \ {r}
    /\ UNCHANGED <<apiVars, raceVars, formVars, loading, error, searchTerm, filterStatus>>

\* onChange of the search box and of the status select.
SetSearchTerm(term) ==
    /\ Rendered
    /\ searchTerm' = term
    /\ UNCHANGED <<apiVars, raceVars, formVars, applications, loading, error, deletingId, apiError,
                   filterStatus, requests>>

SetFilterStatus(filter) ==
    /\ Rendered
    /\ filterStatus' = filter
    /\ UNCHANGED <<apiVars, raceVars, formVars, applications, loading, error, deletingId, apiError,
                   searchTerm, requests>>

NextList ==
    \/ FetchApplications
    \/ \E r \in requests : ServeList(r)
    \/ \E r \in requests : ServeDelete(r)
    \/ \E r \in requests : NetworkError(r)
    \/ \E r \in requests : FetchSettled(r)
    \/ \E r \in requests : DeleteSettled(r)
    \/ \E id \in UUIDs : HandleDelete(id)
    \/ \E term \in SearchTerms : SetSearchTerm(term)
    \/ \E filter \in StatusFilters : SetFilterStatus(filter)

SpecList == InitList /\ [][NextList]_vars

(***************************************************************************)
(* The add form (JobApplciationForm, src/unnamed/part_006) and the edit    *)
(* form (components/EditApplicationForm.tsx) with the API behind them.     *)
(* One of the two is mounted.  Its request is sent, served by the handler  *)
(* and settled in the form, each in a step of its own; the completion      *)
(* callback navigates away, after which the form does nothing more.        *)
(***************************************************************************)
\* The UTC offsets of the browsers, in hours.
TimeZones == {0 - 5, 0, 5}

\* format(date, 'yyyy-MM-dd') of date-fns: the calendar day of the instant t in the
\* time zone of the browser.
Format(t, tz) ==
    LET day == (t + tz) \div 24
    IN  CASE day = 0 - 1 -> "2024-12-31"
          [] day = 0 -> "2025-01-01"
          [] day = 1 -> "2025-01-02"
          [] OTHER -> "Invalid time value"

\* The default values of the add form (the date is today's).
DefaultValues ==
    [EmptyBody EXCEPT !.company = "", !.jobTitle = "", !.dateApplied = "2025-01-01",
                      !.status = "Applied", !.notes = "", !.link = ""]

\* What the user can put into a field.
FormInputs ==
    [company     |-> {"", "Google"},
     jobTitle    |-> {"Engineer"},
     dateApplied |-> {"", "2025-01-01"},
     status      |-> {"Offer"},
     notes       |-> {"", "referral"},
     link        |-> {"", "example"}]

\* A form without validation: every value passes.
FormErrorsNone(form, vals) == {}

\* The zodResolver of the form: the fields whose value breaks the schema.  The add
\* form requires company, jobTitle, dateApplied and status; the edit form's schema
\* is partial.
FormErrors(form, vals) ==
    {f \in Fields :
        \/ FieldIssues(f, vals[f]) # <<>>
        \/ /\ form = "add"
           /\ f \in {"company", "jobTitle", "dateApplied", "status"}
           /\ vals[f] = Undefined}

\* The body onSubmit sends: the validated data with '' for notes and link as null.
SubmitBody(data) ==
    [data EXCEPT !.notes = EmptyToNull(data.notes), !.link = EmptyToNull(data.link)]

\* The setValue calls of fetchApplication: the fields from the fetched record.
Populated(data, tz) ==
    [EmptyBody EXCEPT !.company = data.company,
                      !.jobTitle = data.jobTitle,
                      !.dateApplied = Format(NewDate(data.dateApplied), tz),
                      !.status = data.status,
                      !.notes = IF Truthy(data.notes) THEN data.notes ELSE "",
                      !.link = IF Truthy(data.link) THEN data.link ELSE ""]

\* The tables a form may find: empty, or one record created earlier.
FormBodies ==
    {CompleteBody,
     [CompleteBody EXCEPT !.notes = Undefined, !.link = Undefined,
                          !.dateApplied = "2025-01-02"],
     [CompleteBody EXCEPT !.notes = ""]}
FormStores ==
    {{}} \cup {PostHandler({}, b, RaceId, 1, FALSE).store : b \in FormBodies}

\* The form is on the screen (the edit form after its record has loaded) and the
\* completion callback has not navigated away.
Editable ==
    /\ mounted \in {"add", "edit"}
    /\ mounted = "edit" => (~initialDataLoading /\ initialDataError = Null)
    /\ completions = 0

FormRequest(kind, body) == [NoFormRequest EXCEPT !.kind = kind, !.body = body, !.pc = "sent"]

\* err.message of a request that did not succeed: the message of the body, the
\* fallback text when the body has none, the text of the rejected fetch.
ErrorMessage(r, fallback) ==
    IF r.pc = "failed" THEN "Failed to fetch"
    ELSE IF "message" \in DOMAIN r.resp THEN r.resp.message
    ELSE fallback

\* The add form does not look at the time zone or at the records there are.
InitForm ==
    /\ mounted \in {"add", "edit"}
    /\ store \in IF mounted = "edit" THEN FormStores
                 ELSE {{}, PostHandler({}, CompleteBody, RaceId, 1, FALSE).store}
    /\ usedIds = Ids(store)
    /\ now = 1
    /\ last = NoRequest
    /\ NoRace
    /\ NoList
    /\ applicationId = IF mounted = "edit" THEN RaceId ELSE Undefined
    /\ timeZone \in IF mounted = "edit" THEN TimeZones ELSE {0}
    /\ values = IF mounted = "add" THEN DefaultValues ELSE EmptyBody
    /\ errors = {}
    /\ initialDataLoading = (mounted = "edit")
    /\ initialDataError = Null
    /\ formApiError = Null
    /\ success = Null
    /\ completions = 0
    /\ formRequest = NoFormRequest

\* useEffect of the edit form: fetchApplication up to its fetch.
FetchApplication ==
    /\ mounted = "edit"
    /\ initialDataLoading
    /\ formRequest = NoFormRequest
    /\ initialDataLoading' = TRUE
    /\ initialDataError' = Null
    /\ formRequest' = FormRequest("GET", EmptyBody)
    /\ UNCHANGED <<apiVars, raceVars, listVars, mounted, applicationId, timeZone, values,
                   errors, formApiError, success, completions>>

\* The API serves the request of the form.
ServeForm(kind, reply) ==
    /\ now < MaxClock
    /\ formRequest.kind = kind
    /\ formRequest.pc = "sent"
    /\ store' = reply.store
    /\ now' = now + 1
    /\ last' = Request(kind, applicationId, formRequest.body, reply)
    /\ formRequest' = [formRequest EXCEPT !.pc = "replied", !.status = reply.status,
                                          !.resp = reply.body]
    /\ UNCHANGED <<raceVars, listVars, mounted, applicationId, timeZone, values, errors,
                   initialDataLoading, initialDataError, formApiError, success,
                   completions>>

ServeFormGet ==
    \E fault \in BOOLEAN :
        /\ ServeForm("GET", GetHandler(store, applicationId, fault))
        /\ UNCHANGED usedIds

ServeFormPost ==
    \E id \in UUIDs \ usedIds, fault \in BOOLEAN :
        LET reply == PostHandler(store, formRequest.body, id, now + 1, fault)
        IN  /\ ServeForm("POST", reply)
            /\ usedIds' = IF reply.status = 201 THEN usedIds \cup {id} ELSE usedIds

ServeFormPut ==
    \E fault \in BOOLEAN :
        /\ ServeForm("PUT", PutHandler(store, applicationId, formRequest.body, now + 1, fault))
        /\ UNCHANGED usedIds

\* The fetch of the form's request is rejected (the network fails).
FormNetworkError ==
    /\ formRequest.pc \in {"sent", "replied"}
    /\ formRequest' = [formRequest EXCEPT !.pc = "failed", !.status = 0,
                                          !.resp = NoFormRequest.resp]
    /\ UNCHANGED <<apiVars, raceVars, listVars, mounted, applicationId, timeZone, values,
                   errors, initialDataLoading, initialDataError, formApiError, success,
                   completions>>

\* The record could not be loaded, and the form says nothing about it.
LoadErrorNone(r) == Null

\* initialDataError after the fetch of the record settled as r.
LoadError(r) ==
    IF ResponseOk(r) THEN Null ELSE ErrorMessage(r, "Failed to fetch application data")

\* fetchApplication from the settled fetch on.
FetchApplicationSettled ==
    /\ formRequest.kind = "GET"
    /\ formRequest.pc \in {"replied", "failed"}
    /\ values' = IF ResponseOk(formRequest) THEN Populated(formRequest.resp, timeZone)
                 ELSE values
    /\ initialDataError' = LoadError(formRequest)
    /\ initialDataLoading' = FALSE
    /\ formRequest' = NoFormRequest
    /\ UNCHANGED <<apiVars, raceVars, listVars, mounted, applicationId, timeZone, errors,
                   formApiError, success, completions>>

\* The user changes a field (between submissions).
Change(f, v) ==
    /\ Editable
    /\ formRequest = NoFormRequest
    /\ values' = [values EXCEPT ![f] = v]
    /\ UNCHANGED <<apiVars, raceVars, listVars, mounted, applicationId, timeZone, errors,
                   initialDataLoading, initialDataError, formApiError, success,
                   completions, formRequest>>

\* handleSubmit(onSubmit): the resolver validates the values; with errors they are
\* shown and onSubmit is not called; else onSubmit runs up to its fetch.  The
\* submit button is disabled while a submission is under way (isSubmitting).
Submit ==
    /\ Editable
    /\ formRequest = NoFormRequest
    /\ errors' = FormErrors(mounted, values)
    /\ IF FormErrors(mounted, values) # {}
       THEN UNCHANGED <<formApiError, success, formRequest>>
       ELSE /\ formApiError' = Null
            /\ success' = Null
            /\ formRequest' = FormRequest(IF mounted = "add" THEN "POST" ELSE "PUT",
                                          SubmitBody(values))
    /\ UNCHANGED <<apiVars, raceVars, listVars, mounted, applicationId, timeZone, values,
                   initialDataLoading, initialDataError, completions>>

\* onSubmit from the settled fetch on; the add form resets its fields on success.
SubmitSettled ==
    /\ formRequest.kind \in {"POST", "PUT"}
    /\ formRequest.pc \in {"replied", "failed"}
    /\ IF ResponseOk(formRequest)
       THEN /\ success' = IF mounted = "add" THEN "Application created successfully!"
                          ELSE "Application updated successfully!"
            /\ values' = IF mounted = "add" THEN DefaultValues ELSE values
            /\ completions' = completions + 1
            /\ UNCHANGED formApiError
       ELSE /\ formApiError' = ErrorMessage(formRequest,
                                   IF mounted = "add" THEN "Failed to create job application"
                                   ELSE "Failed to update application")
            /\ UNCHANGED <<success, values, completions>>
    /\ formRequest' = NoFormRequest
    /\ UNCHANGED <<apiVars, raceVars, listVars, mounted, applicationId, timeZone, errors,
                   initialDataLoading, initialDataError>>

NextForm ==
    \/ FetchApplication
    \/ ServeFormGet
    \/ ServeFormPost
    \/ ServeFormPut
    \/ FormNetworkError
    \/ FetchApplicationSettled
    \/ \E f \in Fields : \E v \in FormInputs[f] : Change(f, v)
    \/ Submit
    \/ SubmitSettled

SpecForm == InitForm /\ [][NextForm]_vars

(***************************************************************************)
(* Properties of the API.                                                  *)
(***************************************************************************)
\* The JSON object shows the row: the same keys, each column's value, the date as
\* a string that denotes the stored instant.
Shows(json, row) ==
    /\ DOMAIN json = DOMAIN row
    /\ \A f \in DOMAIN row :
          IF f = "dateApplied" THEN NewDate(json[f]) = row[f] ELSE json[f] = row[f]

\* The database itself failed the store call of the last request.
StoreFailed == last.code = "P1001"

\* A create request with non-empty company, jobTitle and status and a parseable date.
ValidCreateRequest ==
    /\ last.op = "POST"
    /\ \A f \in {"company", "jobTitle", "status"} : last.body[f] \notin {Undefined, Null, ""}
    /\ last.body.dateApplied \in {"2025-01-01", "2025-01-02"}

\* A body the update schema accepts.
ValidUpdateBody(b) ==
    /\ b.company # ""
    /\ b.jobTitle # ""
    /\ b.dateApplied \in {Undefined, "2025-01-01", "2025-01-02"}
    /\ b.status \in {Undefined, "Applied", "Interviewing", "Rejected", "Offer", "Withdrew"}
    /\ b.link \in {Undefined, Null, "", "https://example.com/job"}

C2_MissingRejected ==
    (/\ last.op = "POST"
     /\ \E f \in {"company", "jobTitle", "dateApplied", "status"} :
            last.body[f] \in {Undefined, ""})
    => /\ last.status = 400
       /\ DOMAIN last.resp \cap {"error", "message"} # {}
       /\ store = last.before

\* A create with an empty status was rejected while the store held a record.
C2_Witness ==
    /\ last.op = "POST"
    /\ last.body.status = ""
    /\ last.status = 400
    /\ last.before # {}

\* The payload names the field: a per-field error keyed by it, or a text about it.
NamesCompany(payload) ==
    \/ "errors" \in DOMAIN payload /\ "company" \in DOMAIN payload.errors
    \/ \E k \in DOMAIN payload \cap {"error", "message"} :
          payload[k] = "Company name is required"

\* C3: a create with company = "" and the other required fields valid responds 400
\* with a validation error that names the field company.
C3_NamesCompany ==
    (/\ last.op = "POST"
     /\ last.body.company = ""
     /\ \A f \in {"jobTitle", "status"} : last.body[f] \notin {Undefined, Null, ""}
     /\ last.body.dateApplied \in {"2025-01-01", "2025-01-02"})
    => /\ last.status = 400
       /\ NamesCompany(last.resp)

\* C4: every stored record has one of the five statuses, and a create or update
\* that carries another status is rejected and stores nothing.
C4_StatusEnum ==
    /\ \A r \in store : r.status \in Statuses
    /\ (/\ last.op \in {"POST", "PUT"}
        /\ last.body.status \notin Statuses \cup {Undefined})
       => (last.status = 400 /\ store = last.before)

\* C5: the notes and the link of every stored record are null or a non-empty string.
C5_NoEmptyText ==
    \A r \in store : r.notes # "" /\ r.link # ""

\* C6: GET, PUT and DELETE with a path id that is no UUID respond 400 without any
\* store call, whatever the body, and the store is unchanged.
C6_BadIdNoAccess ==
    (last.op \in {"GET", "PUT", "DELETE"} /\ last.id \in Malformed)
    => /\ last.status = 400
       /\ last.calls = <<>>
       /\ store = last.before

\* A PUT with a valid body and a malformed id was answered while a record existed.
C6_Witness ==
    /\ last.op = "PUT"
    /\ last.id \in Malformed
    /\ last.body = CompleteBody
    /\ last.status = 400
    /\ last.before # {}

\* C7: GET with a valid UUID responds 200 with the stored record when a record has
\* that id and 404 when none has, and leaves the store unchanged.
C7_Read ==
    (last.op = "GET" /\ last.id \in UUIDs /\ ~StoreFailed)
    => /\ store = last.before
       /\ IF \E r \in last.before : r.id = last.id
          THEN /\ last.status = 200
               /\ \E r \in last.before : r.id = last.id /\ Shows(last.resp, r)
          ELSE last.status = 404

\* A record was read while the store held two records.
C7_Witness ==
    /\ last.op = "GET"
    /\ last.status = 200
    /\ Cardinality(last.before) = 2

\* C8: a successful PUT leaves every field that its body does not name as stored,
\* modifies no other record, and advances updatedAt of the record.
C8_PatchFrame ==
    (last.op = "PUT" /\ last.status = 200)
    => \E old \in last.before, new \in store :
          /\ old.id = last.id
          /\ new.id = last.id
          /\ \A f \in Fields : last.body[f] = Undefined => new[f] = old[f]
          /\ store \ {new} = last.before \ {old}
          /\ new.updatedAt > old.updatedAt

\* A body of only {status: "Offer"} updated one of two records.
C8_Witness ==
    /\ last.op = "PUT"
    /\ last.status = 200
    /\ last.body = [EmptyBody EXCEPT !.status = "Offer"]
    /\ Cardinality(last.before) = 2
    /\ \E old \in last.before : old.id = last.id /\ old.status = "Applied"

\* C9: a PUT whose body has link = "" (or notes = "") stores null for the field;
\* a GET returns the stored notes and link; and the stored notes or link of a
\* record changes only by a successful PUT on it whose body names the field.
C9_EmptyToNull ==
    /\ (last.op = "PUT" /\ last.status = 200)
       => \A f \in {"notes", "link"} :
             last.body[f] = "" => \E r \in store : r.id = last.id /\ r[f] = Null
    /\ (last.op = "GET" /\ last.status = 200)
       => \E r \in store :
             r.id = last.id /\ last.resp.notes = r.notes /\ last.resp.link = r.link
    /\ \A old \in last.before, new \in store :
          \A f \in {"notes", "link"} :
             (old.id = new.id /\ old[f] # new[f])
             => /\ last.op = "PUT"
                /\ last.status = 200
                /\ last.id = old.id
                /\ last.body[f] # Undefined

\* A PUT with link = "" emptied the link of a record that had one.
C9_Witness ==
    /\ last.op = "PUT"
    /\ last.status = 200
    /\ last.body.link = ""
    /\ \E old \in last.before : old.id = last.id /\ old.link = "https://example.com/job"
    /\ \E r \in store : r.id = last.id /\ r.link = Null

\* C10: a PUT with a valid UUID and a valid body responds 200 with the updated
\* record when a record has the id, and 404 when none has; in the 404 case no
\* record is created or modified.
C10_UpdateOr404 ==
    (/\ last.op = "PUT"
     /\ last.id \in UUIDs
     /\ ValidUpdateBody(last.body)
     /\ ~StoreFailed)
    => IF \E r \in last.before : r.id = last.id
       THEN /\ last.status = 200
            /\ \E r \in store :
                  /\ r.id = last.id
                  /\ Shows(last.resp, r)
                  /\ \A f \in {"company", "jobTitle", "status"} :
                        last.body[f] # Undefined => r[f] = last.body[f]
       ELSE /\ last.status = 404
            /\ store = last.before

\* A valid PUT on an id that no record has was answered 404 while another record
\* existed.
C10_Witness ==
    /\ last.op = "PUT"
    /\ last.id \in UUIDs
    /\ last.body = [EmptyBody EXCEPT !.status = "Offer"]
    /\ last.status = 404
    /\ last.before # {}

\* The fields of an update body that break the update schema.
Offending(b) ==
    {f \in Fields :
        \/ f \in {"company", "jobTitle"} /\ b[f] = ""
        \/ f = "dateApplied" /\ b[f] \notin {Undefined, "2025-01-01", "2025-01-02"}
        \/ f = "status" /\ b[f] \notin Statuses \cup {Undefined}
        \/ f = "link" /\ b[f] \notin {Undefined, Null, "", "https://example.com/job"}}

\* The response is 400 with a message and a map of messages keyed by exactly the
\* offending fields, and the store is as before.
FieldErrorResponse ==
    /\ last.status = 400
    /\ DOMAIN last.resp = {"message", "errors"}
    /\ DOMAIN last.resp.errors = Offending(last.body)
    /\ \A f \in DOMAIN last.resp.errors : last.resp.errors[f] # <<>>
    /\ store = last.before

\* C11 as stated: every PUT whose body violates the update schema responds 400 with
\* a per-field error map keyed by the offending fields, and the store is unchanged.
C11_AnyPathId ==
    (last.op = "PUT" /\ Offending(last.body) # {}) => FieldErrorResponse

\* C11 as amended: a PUT with a syntactically valid UUID as path id whose body
\* violates the update schema responds 400 with a per-field error map keyed by the
\* offending fields, and the store is unchanged.
C11_FieldErrors ==
    (last.op = "PUT" /\ last.id \in UUIDs /\ Offending(last.body) # {})
    => FieldErrorResponse

\* A PUT on an existing record with a link that is no URL was rejected.
C11_Witness ==
    /\ last.op = "PUT"
    /\ last.body.link = "example"
    /\ \E r \in last.before : r.id = last.id
    /\ last.status = 400
    /\ "errors" \in DOMAIN last.resp

\* C12: DELETE with a valid UUID responds 200 or 204 and removes exactly that record
\* when it exists, and responds 404 with the store unchanged when it does not.
C12_Delete ==
    (last.op = "DELETE" /\ last.id \in UUIDs /\ ~StoreFailed)
    => IF \E r \in last.before : r.id = last.id
       THEN /\ last.status \in {200, 204}
            /\ \E r \in last.before : r.id = last.id /\ store = last.before \ {r}
       ELSE /\ last.status = 404
            /\ store = last.before

\* The ids of the records removed before the request just answered: every id the
\* database gave out belongs to a record that was created, and a record that is no
\* longer in the table was deleted.
DeletedBefore ==
    {u \in usedIds : u \notin Ids(last.before) /\ ~(last.op = "POST" /\ u \in Ids(store))}

\* C13: once a DELETE has removed a record, every later GET of its id responds 404,
\* no later list response shows it, and no later request brings it back.
C13_StaysDeleted ==
    \A u \in DeletedBefore :
        /\ u \notin Ids(store)
        /\ (last.op = "GET" /\ last.id = u /\ ~StoreFailed) => last.status = 404
        /\ (last.op = "LIST" /\ last.status = 200)
           => \A i \in DOMAIN last.resp : last.resp[i].id # u

\* A record was created and deleted, and the GET of its id was answered 404.
C13_Witness ==
    /\ last.op = "GET"
    /\ last.id \in DeletedBefore
    /\ last.status = 404

\* C14: the list request answers every stored record exactly once, ordered by
\* dateApplied non-increasing, filters nothing and leaves the store as it was.
C14_ListAll ==
    (last.op = "LIST" /\ ~StoreFailed)
    => /\ last.status = 200
       /\ DOMAIN last.resp = 1..Cardinality(last.before)
       /\ \A r \in last.before :
             Cardinality({i \in DOMAIN last.resp : Shows(last.resp[i], r)}) = 1
       /\ \A i, j \in DOMAIN last.resp :
             i < j => NewDate(last.resp[i].dateApplied) >= NewDate(last.resp[j].dateApplied)
       /\ store = last.before

\* Two records of different dates were listed.
C14_Witness ==
    /\ last.op = "LIST"
    /\ last.status = 200
    /\ \E r, q \in last.before : r.dateApplied # q.dateApplied

\* C15: no two stored records share an id; a stored record keeps its id and its
\* createdAt through every request, a PUT body that carries id or createdAt keys
\* included; a created record takes neither from the POST body.
C15_Identity ==
    /\ \A r, q \in store : r.id = q.id => r = q
    /\ \A r \in last.before, q \in store : q.id = r.id => q.createdAt = r.createdAt
    /\ last.op = "PUT" => Ids(store) = Ids(last.before)
    /\ last.op # "POST" => Ids(store) \subseteq Ids(last.before)
    /\ (last.op = "POST" /\ last.status = 201)
       => \E q \in store :
             /\ store = last.before \cup {q}
             /\ q.id \notin Ids(last.before) \cup {last.body.id}
             /\ q.createdAt = now

\* A PUT whose body carries an id key was applied to a stored record.
C15_Witness ==
    /\ last.op = "PUT"
    /\ last.body.id = ClientId
    /\ last.status = 200
    /\ last.id \in Ids(store)

\* C16: a store call that fails for a reason other than record-not-found is answered
\* by the handler with 500 and a generic message, whichever handler made the call.
C16_StoreFailure500 ==
    StoreFailed
    => /\ last.status = 500
       /\ \E k \in {"message", "error"} :
             /\ DOMAIN last.resp = {k}
             /\ last.resp[k] \in {"Error fetching job applications",
                                  "Error creating job application",
                                  "Failed to fetch application",
                                  "Failed to update application",
                                  "Failed to delete application"}

\* C17: every error response (400, 404, 500) has a body with a field named message,
\* and an errors map only when the request failed validation.
C17_ErrorShape ==
    last.status \in {400, 404, 500}
    => /\ "message" \in DOMAIN last.resp
       /\ "errors" \in DOMAIN last.resp => (last.status = 400 /\ last.calls = <<>>)

\* What a PUT body leaves in column f when it names it.
Written(f, v) ==
    IF f = "dateApplied" THEN NewDate(v) ELSE IF v = "" THEN Null ELSE v

\* The store call of every session has run.
AllApplied == Len(applied) = Cardinality(Session)

\* C18: of a PUT (with a valid body) and a DELETE on the same record, either the
\* update ran first and the PUT answers 200, or the delete ran first and the PUT
\* answers 404; once a delete has run the record is gone for good; of two PUTs that
\* write the same field the record keeps the value of the one that ran last.
C18_Race ==
    /\ \A s \in Session :
          (sessions[s].op = "DELETE" /\ sessions[s].pc # "sent")
          => RaceId \notin Ids(store)
    /\ \A p, d \in Session :
          (/\ AllApplied
           /\ sessions[p].op = "PUT" /\ ValidUpdateBody(sessions[p].body)
           /\ sessions[d].op = "DELETE")
          => \/ applied = <<p, d>> /\ sessions[p].status = 200
             \/ applied = <<d, p>> /\ sessions[p].status = 404
    /\ \A p, q \in Session :
          (/\ AllApplied
           /\ applied = <<p, q>>
           /\ sessions[p].op = "PUT" /\ ValidUpdateBody(sessions[p].body)
           /\ sessions[q].op = "PUT" /\ ValidUpdateBody(sessions[q].body))
          => \A f \in Fields :
                sessions[q].body[f] # Undefined
                => RowOf(store, RaceId)[f] = Written(f, sessions[q].body[f])

\* The delete ran first: the PUT of the other session was answered 404.
C18_Witness ==
    /\ \A s \in Session : sessions[s].pc = "answered"
    /\ \E p, d \in Session :
          /\ sessions[p].op = "PUT" /\ sessions[d].op = "DELETE"
          /\ applied = <<d, p>>
          /\ sessions[p].status = 404

\* The same letter, whatever its case.
SameLetter(a, b) ==
    a = b \/ \E k \in DOMAIN Uppers : {a, b} = {Uppers[k], Lowers[k]}

\* term occurs in text as a run of characters, the case of letters ignored.
OccursIn(term, text) ==
    \E k \in 0..(Len(text) - Len(term)) :
        \A i \in 1..Len(term) : SameLetter(term[i], text[k + i])

\* The two conditions of the list view on a fetched record.
Listed(app) ==
    /\ \/ searchTerm = <<>>
       \/ OccursIn(searchTerm, Chars(app.jobTitle))
       \/ OccursIn(searchTerm, Chars(app.company))
       \/ OccursIn(searchTerm, IF app.notes = Null THEN <<>> ELSE Chars(app.notes))
    /\ filterStatus = "All" \/ app.status = filterStatus

\* C19: the rows of the list view are the fetched records, in fetched order, whose
\* jobTitle, company or notes (null as empty) contains the search term ignoring
\* case, or the term is empty, and whose status is the filter, or the filter is All.
C19_Filter ==
    LET rows == FilteredApplications(applications, searchTerm, filterStatus)
    IN  \E f \in [DOMAIN rows -> DOMAIN applications] :
           /\ \A i, j \in DOMAIN rows : i < j => f[i] < f[j]
           /\ {f[i] : i \in DOMAIN rows} = {k \in DOMAIN applications : Listed(applications[k])}
           /\ \A i \in DOMAIN rows : rows[i] = applications[f[i]]

\* Two records are fetched and the search for "goog" lists the one of Google only.
C19_Witness ==
    /\ Rendered
    /\ Len(applications) = 2
    /\ searchTerm = <<"g", "o", "o", "g">>
    /\ Len(FilteredApplications(applications, searchTerm, filterStatus)) = 1
    /\ FilteredApplications(applications, searchTerm, filterStatus)[1].company = "Google"

\* The ids of the rows in the local state of the list view.
LocalIds(apps) == {apps[i].id : i \in DOMAIN apps}

\* C20: a row leaves the local applications only in the step that handles a
\* successful response to the DELETE of that row; the step that handles a failed
\* DELETE (a response that is not ok, or a rejected fetch) leaves the local
\* applications as they are and sets the inline error.
C20_DeleteLocal ==
    [][LET settled == {r \in requests :
                         /\ r.kind = "DELETE"
                         /\ \A q \in requests' : ~(q.kind = "DELETE" /\ q.id = r.id)}
       IN  /\ \A id \in LocalIds(applications) \ LocalIds(applications') :
                 \E r \in settled :
                    r.id = id /\ r.pc = "replied" /\ r.status \in 200..299
           /\ \A r \in settled :
                 ~(r.pc = "replied" /\ r.status \in 200..299)
                 => /\ r.pc \in {"replied", "failed"}
                    /\ applications' = applications
                    /\ r.id \in LocalIds(applications')
                    /\ apiError' # Null]_vars

\* A DELETE was answered with an error: the row is still listed, the inline error
\* is shown, and no delete is in flight any more.
C20_Witness ==
    /\ Rendered
    /\ apiError = "Failed to delete application"
    /\ deletingId = Null
    /\ applications # <<>>
    /\ \A r \in requests : r.kind # "DELETE"

\* C23: a create request whose dateApplied is a non-empty string that is no date is
\* answered 400 and creates no record.
C23_BadDate400 ==
    (/\ last.op = "POST"
     /\ Truthy(last.body.dateApplied)
     /\ NewDate(last.body.dateApplied) = InvalidDate)
    => /\ last.status = 400
       /\ store = last.before

\* C25: while a DELETE that handleDelete started for a row is in flight, deletingId
\* names that row, so the row's delete button is disabled.
C25_ButtonDisabled ==
    \A r \in requests : r.kind = "DELETE" => deletingId = r.id

\* C27: the step that starts a delete leaves no delete error on the screen, and so
\* does the step that handles the successful response to a delete.
C27_ErrorCleared ==
    [][/\ (\E r \in requests' \ requests : r.kind = "DELETE" /\ r.pc = "sent")
          => apiError' = Null
       /\ (\E r \in requests :
              /\ r.kind = "DELETE" /\ r.pc = "replied" /\ r.status \in 200..299
              /\ \A q \in requests' : ~(q.kind = "DELETE" /\ q.id = r.id))
          => apiError' = Null]_vars

\* The field values satisfy the schema of the forms.
PassesForm(vals) ==
    /\ vals.company \notin {Undefined, ""}
    /\ vals.jobTitle \notin {Undefined, ""}
    /\ NewDate(vals.dateApplied) # InvalidDate
    /\ vals.status \in Statuses
    /\ vals.link \in {"", "https://example.com/job"}

\* The step settles a POST or PUT of the form that was answered with success.
SettlesSuccess ==
    /\ formRequest.kind \in {"POST", "PUT"}
    /\ formRequest.pc = "replied"
    /\ formRequest.status \in 200..299
    /\ formRequest' = NoFormRequest

\* C21: a form sends a POST or PUT only when its field values pass the client-side
\* schema, and the completion callback is invoked once in exactly the steps that
\* settle a submitted request answered with success.
C21_SubmitRules ==
    [][/\ (/\ formRequest = NoFormRequest
           /\ formRequest'.kind \in {"POST", "PUT"})
          => (PassesForm(values) /\ formRequest'.pc = "sent")
       /\ completions' # completions <=> SettlesSuccess
       /\ completions' \in {completions, completions + 1}]_vars

\* A submission was answered with success and the callback was invoked.
C21_Witness ==
    /\ completions = 1
    /\ success # Null
    /\ formRequest = NoFormRequest

\* What holds of the edit form in every state: loading while the fetch of the
\* record is under way; a PUT only from the loaded form; the loaded form has all
\* its fields set.
LoadingRule ==
    mounted = "edit"
    => /\ formRequest.kind = "GET" => initialDataLoading
       /\ formRequest.kind = "PUT" => (~initialDataLoading /\ initialDataError = Null)
       /\ (~initialDataLoading /\ initialDataError = Null)
          => \A f \in Fields : values[f] # Undefined

\* C22: the edit form stays in its loading state until the fetch of the record has
\* settled; a failed fetch leaves it in its error state; a successful one leaves the
\* fields set from the fetched record, and only then is the form there to submit.
C22_LoadThenEdit ==
    [][/\ LoadingRule'
       /\ (initialDataLoading /\ ~initialDataLoading')
          => /\ formRequest.kind = "GET"
             /\ formRequest.pc \in {"replied", "failed"}
             /\ IF formRequest.pc = "replied" /\ formRequest.status = 200
                THEN /\ initialDataError' = Null
                     /\ values'.company = formRequest.resp.company
                     /\ values'.jobTitle = formRequest.resp.jobTitle
                     /\ values'.status = formRequest.resp.status
                     /\ values'.notes = IF formRequest.resp.notes = Null THEN ""
                                        ELSE formRequest.resp.notes
                     /\ values'.link = IF formRequest.resp.link = Null THEN ""
                                       ELSE formRequest.resp.link
                     /\ NewDate(values'.dateApplied) # InvalidDate
                ELSE initialDataError' # Null]_vars

\* The record was loaded into the edit form and a PUT was submitted from it.
C22_Witness ==
    /\ mounted = "edit"
    /\ ~initialDataLoading
    /\ initialDataError = Null
    /\ values.company = "Google"
    /\ formRequest.kind = "PUT"

\* C24: when a POST of the add form is answered with an error status, the error
\* text of the form is a text of the response body.
C24_ServerText ==
    [][(/\ formRequest.kind = "POST"
        /\ formRequest.pc = "replied"
        /\ formRequest.status \notin 200..299
        /\ formRequest' = NoFormRequest)
       => \E k \in DOMAIN formRequest.resp : formApiError' = formRequest.resp[k]]_vars

\* C26: a PUT that submits what the edit form holds after loading the record, with
\* no field changed, leaves company, jobTitle, status, notes, link and dateApplied
\* of the record as they were, in every time zone.
C26_RoundTrip ==
    (mounted = "edit" /\ last.op = "PUT" /\ last.status = 200)
    => \A r \in last.before :
          (r.id = last.id /\ last.body = SubmitBody(Populated(ToJSON(r), timeZone)))
          => \A f \in Fields : RowOf(store, r.id)[f] = r[f]

====
